---- MODULE Spec2Model ----
(***************************************************************************)
(* Model of Phobos' FlowManager (flow.py): the cross-miner name resolver   *)
(* (_name_source_map), the filter parser (_parse_filter, NameSet) and the  *)
(* fetch-then-write loop of run.                                           *)
(*                                                                         *)
(* Strings are sequences of one-character strings, so that formatting,     *)
(* stripping, slicing and lexicographic sorting are computed and not       *)
(* assumed.  A miner is identified by its position in the registration     *)
(* list (the list holds distinct objects); a miner object is its class     *)
(* name and the sequence of names its contname_iter yields.                *)
(***************************************************************************)
EXTENDS Integers, Sequences, FiniteSets, TLC

(***************************************************************************)
(* Bounds of the model.                                                    *)
(***************************************************************************)
\* longest miner list of the resolver specification
MaxMiners == 2
\* longest enumeration one contname_iter yields
MaxNames == 2
\* number of registered writers
NumWriters == 2
\* most fetch/write calls that raise within one run
MaxFaults == 2
\* longest filter string of the parser specification
MaxFilterLen == 5

(***************************************************************************)
(* Strings.                                                                *)
(***************************************************************************)
\* code point of a character (Python compares str by code point)
Ord(c) ==
  CASE c = " " -> 32
    [] c = "(" -> 40
    [] c = ")" -> 41
    [] c = "," -> 44
    [] c = "A" -> 65
    [] c = "B" -> 66
    [] c = "_" -> 95
    [] c = "x" -> 120
    [] c = "y" -> 121
    [] c = "z" -> 122

\* a < b for Python str: lexicographic by code point, a proper prefix is smaller
StrLess(a, b) ==
  \/ /\ Len(a) < Len(b)
     /\ \A i \in 1..Len(a) : a[i] = b[i]
  \/ \E i \in 1..Len(a) :
       /\ i <= Len(b)
       /\ \A j \in 1..(i - 1) : a[j] = b[j]
       /\ Ord(a[i]) < Ord(b[i])

RECURSIVE Sorted(_)
\* sorted(S) of a set of strings
Sorted(S) ==
  IF S = {} THEN <<>>
  ELSE LET m == CHOOSE s \in S : \A t \in S \ {s} : StrLess(s, t)
       IN  <<m>> \o Sorted(S \ {m})

\* the set of elements of a sequence
Range(s) == {s[i] : i \in DOMAIN s}

\* all sequences over S of length at most n
SeqsUpTo(S, n) == UNION {[1..k -> S] : k \in 0..n}

(***************************************************************************)
(* Names of the model's universe.                                          *)
(***************************************************************************)
sx == <<"x">>
sy == <<"y">>
sz == <<"z">>
sxA == <<"x", "_", "A">>
\* class names of miners (type(miner).__name__)
TypeNames == {<<"A">>, <<"B">>}
\* native container names; x_A is also what x is renamed to in a miner of class A
NativeNames == {sx, sy, sxA}

(***************************************************************************)
(* _name_source_map: the resolver.                                         *)
(***************************************************************************)
EmptyMap == [k \in {} |-> k]

\* u'{}_{}'.format(source_name, type(miner).__name__)
ModifiedName(source_name, type_name) == source_name \o <<"_">> \o type_name

RECURSIVE EnumPairs(_, _)
\* the (miner, source_name) pairs in the order the two nested loops visit them
EnumPairs(ms, i) ==
  IF i > Len(ms) THEN <<>>
  ELSE [j \in 1..Len(ms[i].conts) |-> <<i, ms[i].conts[j]>>] \o EnumPairs(ms, i + 1)

\* miners = name_miner_map.setdefault(source_name, []); miners.append(miner)
\* (a dict keeps its keys in insertion order)
SetDefaultAppend(nmm, source_name, miner) ==
  IF source_name \in Range(nmm.keys)
  THEN [nmm EXCEPT !.val[source_name] = Append(@, miner)]
  ELSE [keys |-> Append(nmm.keys, source_name),
        val  |-> [n \in DOMAIN nmm.val \cup {source_name} |->
                    IF n = source_name THEN <<miner>> ELSE nmm.val[n]]]

RECURSIVE BuildNameMinerMap(_, _, _)
BuildNameMinerMap(pairs, k, nmm) ==
  IF k > Len(pairs) THEN nmm
  ELSE BuildNameMinerMap(pairs, k + 1, SetDefaultAppend(nmm, pairs[k][2], pairs[k][1]))

\* name_miner_map: {container name: [miners]}
NameMinerMap(ms) ==
  BuildNameMinerMap(EnumPairs(ms, 1), 1, [keys |-> <<>>, val |-> EmptyMap])

\* self.__name_source_map.setdefault(miner, {})[modified_name] = source_name
SetContainer(map, miner, modified_name, source_name) ==
  LET old == IF miner \in DOMAIN map THEN map[miner] ELSE EmptyMap
      new == [p \in DOMAIN old \cup {modified_name} |->
                IF p = modified_name THEN source_name ELSE old[p]]
  IN  [m \in DOMAIN map \cup {miner} |-> IF m = miner THEN new ELSE map[m]]

RECURSIVE RenameAll(_, _, _, _, _)
\* for miner in miners: register source_name under its modified name
RenameAll(ms, map, source_name, miners, k) ==
  IF k > Len(miners) THEN map
  ELSE RenameAll(ms,
                 SetContainer(map, miners[k],
                              ModifiedName(source_name, ms[miners[k]].type),
                              source_name),
                 source_name, miners, k + 1)

\* the test that decides whether a name is renamed: len(miners) > 1
HasCollision(miners) == Len(miners) > 1

RECURSIVE ResolveNames(_, _, _, _)
\* for source_name, miners in name_miner_map.items(): ...
ResolveNames(ms, nmm, k, map) ==
  IF k > Len(nmm.keys) THEN map
  ELSE LET source_name == nmm.keys[k]
           miners == nmm.val[source_name]
       IN  ResolveNames(ms, nmm, k + 1,
             IF HasCollision(miners)
             THEN RenameAll(ms, map, source_name, miners, 1)
             ELSE SetContainer(map, miners[1], source_name, source_name))

\* the value the property computes: {miner: {modified name: source name}}
ComputeNameSourceMap(ms) == ResolveNames(ms, NameMinerMap(ms), 1, EmptyMap)

(***************************************************************************)
(* NameSet and _parse_filter.                                              *)
(***************************************************************************)
\* characters str.strip() removes
Whitespace == {" "}

RECURSIVE LStrip(_)
LStrip(s) == IF s # <<>> /\ Head(s) \in Whitespace THEN LStrip(Tail(s)) ELSE s

RECURSIVE RStrip(_)
RStrip(s) ==
  IF s # <<>> /\ s[Len(s)] \in Whitespace THEN RStrip(SubSeq(s, 1, Len(s) - 1)) ELSE s

\* name.strip()
Strip(s) == RStrip(LStrip(s))

\* set.add in place of NameSet.add: nothing stripped, nothing dropped
NameSetAddRaw(name_set, name) == name_set \cup {name}

\* NameSet.add: strip, and add only what is left non-empty
NameSetAdd(name_set, name) ==
  LET stripped == Strip(name)
  IN  IF stripped # <<>> THEN name_set \cup {stripped} ELSE name_set

\* name_filter[:b]: a slice that forgets where the segment starts
SliceFromStart(s, a, b) == SubSeq(s, 1, b)

\* name_filter[a:b] with Python's 0-based positions
Slice(s, a, b) == SubSeq(s, a + 1, b)

\* the characters re.finditer('[(),]', ...) stops at
Special == {"(", ")", ","}

\* the end of _parse_filter without its check for an open parenthesis
FinishParseUnchecked(s, inarg, pos_current, name_set) ==
  [ok |-> TRUE, msg |-> <<>>,
   names |-> NameSetAdd(name_set, Slice(s, pos_current, Len(s)))]

\* after the loop: an open parenthesis is an error, else the last segment is added
FinishParse(s, inarg, pos_current, name_set) ==
  IF inarg
  THEN [ok |-> FALSE, msg |-> <<"parenthesis is not closed">>, names |-> {}]
  ELSE [ok |-> TRUE, msg |-> <<>>,
        names |-> NameSetAdd(name_set, Slice(s, pos_current, Len(s)))]

\* the message with the position after the character instead of its own
UnexpectedMsgEnd(symbol, pos_start) ==
  <<"unexpected character", symbol, pos_start + 1>>

\* 'unexpected character "{}" at position {}'.format(symbol, pos_start)
UnexpectedMsg(symbol, pos_start) == <<"unexpected character", symbol, pos_start>>

RECURSIVE ScanFilter(_, _, _, _, _)
\* the loop over the matches; i is the 1-based index of the next character
ScanFilter(s, i, inarg, pos_current, name_set) ==
  IF i > Len(s) THEN FinishParse(s, inarg, pos_current, name_set)
  ELSE LET symbol == s[i]
           pos_start == i - 1
           pos_end == i
       IN  IF symbol \notin Special
           THEN ScanFilter(s, i + 1, inarg, pos_current, name_set)
           ELSE IF symbol = "," /\ ~inarg
           THEN ScanFilter(s, i + 1, inarg, pos_end,
                           NameSetAdd(name_set, Slice(s, pos_current, pos_start)))
           ELSE IF symbol = "," /\ inarg
           THEN ScanFilter(s, i + 1, inarg, pos_current, name_set)
           ELSE IF symbol = "(" /\ ~inarg
           THEN ScanFilter(s, i + 1, TRUE, pos_current, name_set)
           ELSE IF symbol = ")" /\ inarg
           THEN ScanFilter(s, i + 1, FALSE, pos_current, name_set)
           ELSE [ok |-> FALSE,
                 msg |-> UnexpectedMsg(symbol, pos_start),
                 names |-> {}]

\* _parse_filter(name_filter): the NameSet, or the FilterParseError raised
ParseFilter(name_filter) == ScanFilter(name_filter, 1, FALSE, 0, {})

(***************************************************************************)
(* State of a FlowManager and of the run in progress.                      *)
(***************************************************************************)
VARIABLES
  miners,            \* self._miners: sequence of [type, conts]
  writers,           \* self._writers: sequence of [type]
  name_source_map,   \* self.__name_source_map: [cached, map]; cached = FALSE is None
  iter_calls,        \* per miner, how often its contname_iter was invoked
  pc,                \* "idle", "get_data", "write", "returned" or "raised"
  filter_string,     \* the argument of the current run
  filter_set,        \* run's local filter_set
  processed_set,     \* run's local processed_set
  miner_pos,         \* position of the outer loop in the sorted miner list
  modified_names,    \* sorted(miner_containers) of the current miner
  name_idx,          \* position of the inner loop in modified_names
  container_data,    \* what the last get_data returned
  writer_idx,        \* position of the loop over the writers
  calls,             \* the get_data and write calls of the current run, in order
  out,               \* the lines the current run printed
  exc,               \* the exception that left the current run, or "None"
  exc_msg,           \* the message of a FilterParseError that left, else <<>>
  faults,            \* calls that raised in the current run
  left_before        \* history: an earlier run of this FlowManager raised

vars == <<miners, writers, name_source_map, iter_calls, pc, filter_string,
          filter_set, processed_set, miner_pos, modified_names, name_idx,
          container_data, writer_idx, calls, out, exc, exc_msg, faults,
          left_before>>

(***************************************************************************)
(* Collaborators: what get_data and write can do.                          *)
(***************************************************************************)
\* classes a get_data or write call may raise an instance of
Raisable == {"ValueError", "KeyboardInterrupt", "SystemExit", "FilterParseError"}
Outcomes == {"ok"} \cup Raisable
\* the classes above that derive from Exception; FilterParseError derives
\* from BaseException
ExceptionClasses == {"ValueError"}

\* the data a miner holds for one of its containers
Data(miner, source_name) == <<miner, source_name>>
NoData == <<>>

\* get_data without the "except Exception" clause: every signal leaves run
FetchCaughtNothing(kind) == FALSE

\* get_data under a bare "except:" that swallows every signal
FetchCaughtAll(kind) == TRUE

\* around get_data: except KeyboardInterrupt: raise / except Exception: print
FetchCaught(kind) == kind # "KeyboardInterrupt" /\ kind \in ExceptionClasses

\* write without the "except Exception" clause: every signal leaves run
WriteCaughtNothing(kind) == FALSE

\* writers under "except KeyError:": other ordinary errors leave run
WriteCaughtKeyErrorOnly(kind) == kind = "KeyError"

\* around write: except KeyboardInterrupt: raise / except Exception: print
WriteCaught(kind) == kind # "KeyboardInterrupt" /\ kind \in ExceptionClasses

(***************************************************************************)
(* run: the code between two collaborator calls.                           *)
(***************************************************************************)
Line(tag, name, kind) == [tag |-> tag, name |-> name, kind |-> kind]

\* sorted(..., key=...) with the order of the list reversed
MinersIndexReversed(miner) == 0 - miner

\* position of a miner in self._miners (miners are their positions)
MinersIndex(miner) == miner

RECURSIVE SortedByIndex(_)
SortedByIndex(S) ==
  IF S = {} THEN <<>>
  ELSE LET m == CHOOSE a \in S : \A b \in S : MinersIndex(a) <= MinersIndex(b)
       IN  <<m>> \o SortedByIndex(S \ {m})

\* sorted(self._name_source_map, key=self._miners.index)
MinerOrder(map) == SortedByIndex(DOMAIN map)

\* miner_containers without the intersection_update
MinerContainersUnfiltered(map, fset, miner) == DOMAIN map[miner]

\* miner_containers after the optional intersection_update
MinerContainers(map, fset, miner) ==
  IF fset # {} THEN DOMAIN map[miner] \cap fset ELSE DOMAIN map[miner]

RECURSIVE SkipEmpty(_, _, _, _)
\* first position from p on whose miner has containers to process
SkipEmpty(order, map, fset, p) ==
  IF p > Len(order) \/ MinerContainers(map, fset, order[p]) # {} THEN p
  ELSE SkipEmpty(order, map, fset, p + 1)

\* a report that lists every requested name, processed or not
MissingReportAll(fset, processed) ==
  LET missing == Sorted(fset)
  IN  IF fset # {}
      THEN <<Line("not available:", <<>>, "")>> \o
           [i \in 1..Len(missing) |-> Line("missing", missing[i], "")]
      ELSE <<>>

\* the lines about requested, but unavailable containers
MissingReport(fset, processed) ==
  LET missing == Sorted(fset \ processed)
  IN  IF fset # {} /\ missing # <<>>
      THEN <<Line("not available:", <<>>, "")>> \o
           [i \in 1..Len(missing) |-> Line("missing", missing[i], "")]
      ELSE <<>>

\* From the end of the body for name idx of the miner at pos, run up to the
\* next get_data call or to the end of run.
StepLoop(ms, map, fset, processed, o, pos, names, idx) ==
  IF idx < Len(names)
  THEN [pc |-> "get_data", miner_pos |-> pos, modified_names |-> names,
        name_idx |-> idx + 1,
        processed_set |-> processed \cup {names[idx + 1]},
        out |-> Append(o, Line("processing", names[idx + 1], ""))]
  ELSE LET order == MinerOrder(map)
           q == SkipEmpty(order, map, fset, pos + 1)
       IN  IF q > Len(order)
           THEN [pc |-> "returned", miner_pos |-> 0, modified_names |-> <<>>,
                 name_idx |-> 0, processed_set |-> processed,
                 out |-> o \o MissingReport(fset, processed)]
           ELSE LET ns == Sorted(MinerContainers(map, fset, order[q]))
                IN  [pc |-> "get_data", miner_pos |-> q, modified_names |-> ns,
                     name_idx |-> 1,
                     processed_set |-> processed \cup {ns[1]},
                     out |-> o \o <<Line("Miner", ms[order[q]].type, ""),
                                    Line("processing", ns[1], "")>>]

SetLoop(L) ==
  /\ pc' = L.pc
  /\ miner_pos' = L.miner_pos
  /\ modified_names' = L.modified_names
  /\ name_idx' = L.name_idx
  /\ processed_set' = L.processed_set
  /\ out' = L.out

\* the property _name_source_map: compute on first access, then return the cache
Accessed(ms, cache) ==
  IF cache.cached THEN cache ELSE [cached |-> TRUE, map |-> ComputeNameSourceMap(ms)]

\* a property without the "is None" test: every access enumerates the miners
IterCallsAlways(cache, ic) == [i \in DOMAIN ic |-> ic[i] + 1]

\* contname_iter is invoked once per miner when the map is computed
IterCallsAfter(cache, ic) ==
  IF cache.cached THEN ic ELSE [i \in DOMAIN ic |-> ic[i] + 1]

\* a fetch under the public name instead of the native one
SourceNamePublic(map, miner, modified_name) == modified_name

\* source_name = miner_names_map[modified_name]
SourceName(map, miner, modified_name) == map[miner][modified_name]

CurrentMiner == MinerOrder(name_source_map.map)[miner_pos]
CurrentName == modified_names[name_idx]

\* a logged call: who is the miner or writer called, arg the name passed,
\* public the modified_name the loop is at, data what was returned or passed
Call(op, who, arg, public, data, outcome) ==
  [op |-> op, who |-> who, arg |-> arg, public |-> public, data |-> data,
   outcome |-> outcome]

(***************************************************************************)
(* Actions.                                                                *)
(***************************************************************************)
\* a processed_set that keeps the names of the run before
InitialProcessedStale == processed_set

\* processed_set = set()
InitialProcessed == {}

\* run(filter_string), up to its first get_data call; a FlowManager can be run
\* again once a run has returned or raised, and the locals of run start afresh
RunStart(fs) ==
  /\ pc \in {"idle", "returned", "raised"}
  /\ filter_string' = fs
  /\ calls' = <<>>
  /\ faults' = 0
  /\ container_data' = NoData
  /\ writer_idx' = 0
  /\ left_before' = (left_before \/ pc = "raised")
  /\ UNCHANGED <<miners, writers>>
  /\ LET parsed == ParseFilter(fs)
     IN  IF ~parsed.ok
         THEN /\ exc' = "FilterParseError"
              /\ exc_msg' = parsed.msg
              /\ filter_set' = {}
              /\ SetLoop([pc |-> "raised", miner_pos |-> 0, modified_names |-> <<>>,
                          name_idx |-> 0, processed_set |-> InitialProcessed,
                          out |-> <<>>])
              /\ UNCHANGED <<name_source_map, iter_calls>>
         ELSE /\ exc' = "None"
              /\ exc_msg' = <<>>
              /\ filter_set' = parsed.names
              /\ name_source_map' = Accessed(miners, name_source_map)
              /\ iter_calls' = IterCallsAfter(name_source_map, iter_calls)
              /\ SetLoop(StepLoop(miners, name_source_map'.map, parsed.names,
                                  InitialProcessed, <<>>, 0, <<>>, 0))

\* a signal leaves run
Raise(kind) ==
  /\ pc' = "raised"
  /\ exc' = kind
  /\ UNCHANGED <<miner_pos, modified_names, name_idx, processed_set, out>>

\* miner.get_data(source_name) returns or raises
GetData(outcome) ==
  /\ pc = "get_data"
  /\ outcome # "ok" => faults < MaxFaults
  /\ faults' = IF outcome = "ok" THEN faults ELSE faults + 1
  /\ LET miner == CurrentMiner
         map == name_source_map.map
         source_name == SourceName(map, miner, CurrentName)
     IN  /\ calls' = Append(calls, Call("get_data", miner, source_name, CurrentName,
                              IF outcome = "ok" THEN Data(miner, source_name) ELSE NoData,
                              outcome))
         /\ IF outcome = "ok"
            THEN /\ container_data' = Data(miner, source_name)
                 /\ exc' = exc
                 /\ IF Len(writers) > 0
                    THEN /\ pc' = "write"
                         /\ writer_idx' = 1
                         /\ UNCHANGED <<miner_pos, modified_names, name_idx,
                                        processed_set, out>>
                    ELSE /\ writer_idx' = writer_idx
                         /\ SetLoop(StepLoop(miners, map, filter_set, processed_set,
                                             out, miner_pos, modified_names, name_idx))
            ELSE /\ UNCHANGED <<container_data, writer_idx>>
                 /\ IF FetchCaught(outcome)
                    THEN /\ exc' = exc
                         /\ SetLoop(StepLoop(miners, map, filter_set, processed_set,
                                      Append(out, Line("failed to fetch", <<>>, outcome)),
                                      miner_pos, modified_names, name_idx))
                    ELSE Raise(outcome)
  /\ UNCHANGED <<miners, writers, name_source_map, iter_calls,
                 filter_string, filter_set, exc_msg, left_before>>

\* writer.write(modified_name, container_data) returns or raises
Write(outcome) ==
  /\ pc = "write"
  /\ outcome # "ok" => faults < MaxFaults
  /\ faults' = IF outcome = "ok" THEN faults ELSE faults + 1
  /\ calls' = Append(calls, Call("write", writer_idx, CurrentName, CurrentName,
                                 container_data, outcome))
  /\ IF outcome = "ok" \/ WriteCaught(outcome)
     THEN LET o == IF outcome = "ok" THEN out
                   ELSE Append(out, Line("failed to write",
                                         writers[writer_idx].type, outcome))
          IN  /\ exc' = exc
              /\ IF writer_idx < Len(writers)
                 THEN /\ writer_idx' = writer_idx + 1
                      /\ out' = o
                      /\ UNCHANGED <<pc, miner_pos, modified_names, name_idx,
                                     processed_set>>
                 ELSE /\ writer_idx' = writer_idx
                      /\ SetLoop(StepLoop(miners, name_source_map.map, filter_set,
                                          processed_set, o, miner_pos,
                                          modified_names, name_idx))
     ELSE /\ writer_idx' = writer_idx
          /\ Raise(outcome)
  /\ UNCHANGED <<miners, writers, name_source_map, iter_calls,
                 filter_string, filter_set, container_data, exc_msg,
                 left_before>>

\* the first access of the property _name_source_map outside run (a later
\* access returns the cached map and changes nothing)
AccessNameSourceMap ==
  /\ pc \in {"idle", "returned", "raised"}
  /\ ~name_source_map.cached
  /\ name_source_map' = Accessed(miners, name_source_map)
  /\ iter_calls' = IterCallsAfter(name_source_map, iter_calls)
  /\ UNCHANGED <<miners, writers, pc, filter_string, filter_set,
                 processed_set, miner_pos, modified_names, name_idx,
                 container_data, writer_idx, calls, out, exc,
                 exc_msg, faults, left_before>>

\* a call of _parse_filter(filter_string) on its own: filter_set receives the
\* NameSet returned, exc and exc_msg the FilterParseError raised
CallParseFilter ==
  /\ pc = "idle"
  /\ LET parsed == ParseFilter(filter_string)
     IN  /\ pc' = IF parsed.ok THEN "returned" ELSE "raised"
         /\ exc' = IF parsed.ok THEN "None" ELSE "FilterParseError"
         /\ exc_msg' = parsed.msg
         /\ filter_set' = parsed.names
  /\ UNCHANGED <<miners, writers, name_source_map, iter_calls, filter_string,
                 processed_set, miner_pos, modified_names, name_idx,
                 container_data, writer_idx, calls, out, faults, left_before>>

(***************************************************************************)
(* Initial states and specifications.                                      *)
(***************************************************************************)
MinerObjects(conts) == [type : TypeNames, conts : conts]

\* miner lists of the resolver specification: every enumeration over NativeNames
MinerLists == SeqsUpTo(MinerObjects(SeqsUpTo(NativeNames, MaxNames)), MaxMiners)

\* enumerations of the miners of the run specification
RunConts == {<<>>, <<sx>>, <<sy, sx>>}
RunMinerLists == SeqsUpTo(MinerObjects(RunConts), MaxMiners)

\* filter strings of the run specification
RunFilters ==
  { <<>>,
    <<" ", ",", " ">>,
    sy,
    sxA,
    sz,
    <<"x", "_", "A", ",", "y">>,
    <<"y", ",", " ", "z">>,
    <<"x", "_", "B", ",", "x">>,
    <<"y", "(">>,
    <<")">> }

\* characters of the filter strings of the parser specification
FilterChars == {"x", "y", " ", ",", "(", ")"}
FilterStrings == SeqsUpTo(FilterChars, MaxFilterLen)

\* FlowManager(miners, writers), about to be given filter string fs
ConstructedWith(ms, fs) ==
  /\ miners = ms
  /\ writers = [i \in 1..NumWriters |-> [type |-> <<"W">>]]
  /\ name_source_map = [cached |-> FALSE, map |-> EmptyMap]
  /\ iter_calls = [i \in 1..Len(ms) |-> 0]
  /\ pc = "idle"
  /\ filter_string = fs
  /\ filter_set = {}
  /\ processed_set = {}
  /\ miner_pos = 0
  /\ modified_names = <<>>
  /\ name_idx = 0
  /\ container_data = NoData
  /\ writer_idx = 0
  /\ calls = <<>>
  /\ out = <<>>
  /\ exc = "None"
  /\ exc_msg = <<>>
  /\ faults = 0
  /\ left_before = FALSE

\* FlowManager(miners, writers)
Constructed(ms) == ConstructedWith(ms, <<>>)

Init == \E ms \in RunMinerLists : Constructed(ms)

Next ==
  \/ \E fs \in RunFilters : RunStart(fs)
  \/ \E outcome \in Outcomes : GetData(outcome)
  \/ \E outcome \in Outcomes : Write(outcome)
  \/ AccessNameSourceMap

Spec == Init /\ [][Next]_vars

InitResolver == \E ms \in MinerLists : Constructed(ms)

NextResolver == AccessNameSourceMap

SpecResolver == InitResolver /\ [][NextResolver]_vars

InitParser == \E fs \in FilterStrings : ConstructedWith(<<>>, fs)

NextParser == CallParseFilter

SpecParser == InitParser /\ [][NextParser]_vars

\* collaborators that return or raise an instance of a class deriving from
\* Exception
OrdinaryOutcomes == {"ok"} \cup ExceptionClasses

NextOrdinary ==
  \/ \E fs \in RunFilters : RunStart(fs)
  \/ \E outcome \in OrdinaryOutcomes : GetData(outcome)
  \/ \E outcome \in OrdinaryOutcomes : Write(outcome)
  \/ AccessNameSourceMap

\* a get_data or write call that run is waiting in comes back: run is
\* single-threaded and does nothing else until the call returns or raises
CallsComeBack ==
  /\ WF_vars(\E outcome \in OrdinaryOutcomes : GetData(outcome))
  /\ WF_vars(\E outcome \in OrdinaryOutcomes : Write(outcome))

SpecOrdinary == Init /\ [][NextOrdinary]_vars /\ CallsComeBack

(***************************************************************************)
(* Vocabulary of the properties.                                           *)
(***************************************************************************)
Namespace == name_source_map.map
\* every public name of the namespace
PublicNames == UNION {DOMAIN Namespace[m] : m \in DOMAIN Namespace}
\* the (miner, public name) pairs of the namespace
NamespacePairs ==
  UNION {{<<m, p>> : p \in DOMAIN Namespace[m]} : m \in DOMAIN Namespace}
\* the pairs the current run selects: all of them without a filter
SelectedPairs ==
  {mp \in NamespacePairs : filter_set = {} \/ mp[2] \in filter_set}
\* the pairs get_data was attempted for in the current run
AttemptedPairs ==
  {<<calls[i].who, calls[i].public>> : i \in {j \in DOMAIN calls : calls[j].op = "get_data"}}
\* the names listed under "requested, but not available"
ListedMissing == {out[i].name : i \in {j \in DOMAIN out : out[j].tag = "missing"}}
\* a report about unavailable containers was printed
ReportPrinted == \E i \in DOMAIN out : out[i].tag \in {"not available:", "missing"}
\* an ordinary error: an instance of a class that derives from Exception
OrdinaryErrors == ExceptionClasses
\* calls[i] is writer w's write of the item that calls[j] wrote
SameWriteBy(i, w, j) ==
  /\ i \in DOMAIN calls
  /\ calls[i].op = "write"
  /\ calls[i].who = w
  /\ calls[i].arg = calls[j].arg
  /\ calls[i].data = calls[j].data
\* the loop over the writers that calls[i] belongs to is over
WritersDone(i) ==
  \/ pc \in {"get_data", "returned"}
  \/ \E j \in DOMAIN calls : j > i /\ calls[j].op = "get_data"

(***************************************************************************)
(* C1: when get_data raises an ordinary error for a selected name, the     *)
(* error does not leave run, no write is made for the failed item (the     *)
(* call after the failed get_data is never a write and no write carries    *)
(* that miner's data for that name), and the run goes on: when it returns, *)
(* get_data has been attempted for every selected name of every miner.     *)
(***************************************************************************)
C1_FetchErrorIsolated ==
  /\ exc \notin OrdinaryErrors
  /\ \A i \in DOMAIN calls :
       (calls[i].op = "get_data" /\ calls[i].outcome \in OrdinaryErrors) =>
         /\ i = Len(calls) => pc \in {"get_data", "returned"}
         /\ i < Len(calls) => calls[i + 1].op = "get_data"
         /\ \A j \in DOMAIN calls :
              calls[j].op = "write" => calls[j].data # Data(calls[i].who, calls[i].arg)
         /\ pc = "returned" => SelectedPairs \subseteq AttemptedPairs

\* a run that returned after a fetch failed, followed by a fetch of another
\* name of the same miner and by a fetch from a later miner
C1_Witness ==
  /\ pc = "returned"
  /\ \E i, j, k \in DOMAIN calls :
       /\ calls[i].op = "get_data" /\ calls[i].outcome \in OrdinaryErrors
       /\ i < j /\ calls[j].op = "get_data" /\ calls[j].who = calls[i].who
       /\ j < k /\ calls[k].op = "get_data" /\ calls[k].who > calls[i].who

(***************************************************************************)
(* C2: when a writer's write raises an ordinary error, the error does not  *)
(* leave run, every earlier writer has been given the same name and data,  *)
(* every later writer is given them too, and the run goes on: when it      *)
(* returns, get_data has been attempted for every selected name and every  *)
(* fetched item has been passed to every writer.                           *)
(***************************************************************************)
C2_WriteErrorIsolated ==
  \A i \in DOMAIN calls :
    (calls[i].op = "write" /\ calls[i].outcome \in OrdinaryErrors) =>
      /\ exc \notin OrdinaryErrors
      /\ i = Len(calls) => pc # "raised"
      /\ \A w \in 1..Len(writers) :
           (w < calls[i].who \/ WritersDone(i)) => SameWriteBy(i - calls[i].who + w, w, i)
      /\ pc = "returned" =>
           /\ SelectedPairs \subseteq AttemptedPairs
           /\ \A g \in DOMAIN calls :
                (calls[g].op = "get_data" /\ calls[g].outcome = "ok") =>
                  \A w \in 1..Len(writers) :
                    /\ g + w \in DOMAIN calls
                    /\ calls[g + w].op = "write"
                    /\ calls[g + w].who = w
                    /\ calls[g + w].arg = calls[g].public
                    /\ calls[g + w].data = calls[g].data

\* a run that returned after the first writer failed on one item and the last
\* writer failed on another, with a fetch after both
C2_Witness ==
  /\ pc = "returned"
  /\ Len(writers) >= 2
  /\ \E i, j, k \in DOMAIN calls :
       /\ calls[i].op = "write" /\ calls[i].who = 1
       /\ calls[i].outcome \in OrdinaryErrors
       /\ calls[i + 1].op = "write" /\ calls[i + 1].outcome = "ok"
       /\ i < j /\ calls[j].op = "write" /\ calls[j].who = Len(writers)
       /\ calls[j].outcome \in OrdinaryErrors
       /\ calls[j - 1].outcome = "ok"
       /\ j < k /\ calls[k].op = "get_data" /\ calls[k].outcome = "ok"

(***************************************************************************)
(* C3: a KeyboardInterrupt raised by a get_data or write call leaves run:  *)
(* it is the last call of the run, run has raised KeyboardInterrupt, and   *)
(* the report of requested but unavailable containers is not printed.      *)
(***************************************************************************)
C3_CancellationPropagates ==
  \A i \in DOMAIN calls :
    calls[i].outcome = "KeyboardInterrupt" =>
      /\ i = Len(calls)
      /\ pc = "raised"
      /\ exc = "KeyboardInterrupt"
      /\ ~ReportPrinted

\* a write raised KeyboardInterrupt in a run that requested an unavailable
\* name, which the report would have listed
C3_Witness ==
  /\ calls # <<>>
  /\ calls[Len(calls)].op = "write"
  /\ calls[Len(calls)].outcome = "KeyboardInterrupt"
  /\ sz \in filter_set
  /\ pc = "raised"

(***************************************************************************)
(* C4: whatever a get_data or write call raises, run catches it and goes   *)
(* on, unless it is KeyboardInterrupt: no other signal raised by a fetch   *)
(* or a write ends the run.                                                *)
(***************************************************************************)
C4_OnlyCancellationLeaves ==
  \A i \in DOMAIN calls :
    (calls[i].outcome \in Raisable \ {"KeyboardInterrupt"}) =>
      ~(i = Len(calls) /\ pc = "raised")

(***************************************************************************)
(* C5: a run with a malformed filter string raises FilterParseError and    *)
(* makes no get_data call, no write call and prints nothing.  A string is  *)
(* malformed when some prefix of it has a second "(" open or a ")" with    *)
(* none open, or when it ends with a "(" open.                             *)
(***************************************************************************)
Depth(s, i) ==
  Cardinality({j \in 1..i : s[j] = "("}) - Cardinality({j \in 1..i : s[j] = ")"})

Malformed(s) ==
  \/ \E i \in 1..Len(s) : Depth(s, i) \notin {0, 1}
  \/ Depth(s, Len(s)) # 0

C5_MalformedFilterIsFatal ==
  (pc # "idle" /\ Malformed(filter_string)) =>
    /\ pc = "raised"
    /\ exc = "FilterParseError"
    /\ calls = <<>>
    /\ out = <<>>

\* a run with an unclosed parenthesis has raised, on a FlowManager whose
\* namespace an earlier run computed
C5_Witness ==
  /\ pc = "raised"
  /\ exc = "FilterParseError"
  /\ filter_string = <<"y", "(">>
  /\ name_source_map.cached
  /\ PublicNames # {}

(***************************************************************************)
(* C6: in a run with a non-empty RequestSet, get_data is attempted only    *)
(* for pairs of the namespace whose public name is requested, and, when no *)
(* signal has cut the run short and it has returned, for all of them; a    *)
(* public name that is not requested is not fetched, not written and not   *)
(* listed as unavailable; and when the run has returned, the names listed  *)
(* as unavailable are the requested names that are in no miner's bucket.   *)
(***************************************************************************)
C6_FilterScoping ==
  filter_set # {} =>
    /\ AttemptedPairs \subseteq {mp \in NamespacePairs : mp[2] \in filter_set}
    /\ \A i \in DOMAIN calls :
         /\ calls[i].public \in filter_set
         /\ calls[i].op = "write" => calls[i].arg \in filter_set
    /\ \A p \in PublicNames \ filter_set : p \notin ListedMissing
    /\ ListedMissing \subseteq filter_set \ PublicNames
    /\ pc = "returned" =>
         /\ AttemptedPairs = {mp \in NamespacePairs : mp[2] \in filter_set}
         /\ ListedMissing = filter_set \ PublicNames

\* a returned run that fetched a requested name, left a public name alone and
\* listed a requested name as unavailable
C6_Witness ==
  /\ pc = "returned"
  /\ filter_set = {sy, sz}
  /\ AttemptedPairs # {}
  /\ PublicNames \ filter_set # {}
  /\ ListedMissing = {sz}

(***************************************************************************)
(* C7: a filter string made only of commas and whitespace (the empty       *)
(* string included) parses to the empty RequestSet; the run prints no      *)
(* report of unavailable containers and, when no signal has cut it short   *)
(* and it has returned, get_data has been attempted for every public name  *)
(* of every miner.                                                         *)
(***************************************************************************)
OnlyCommasAndWhitespace(s) == \A i \in 1..Len(s) : s[i] \in {","} \cup Whitespace

C7_EmptyFilterProcessesAll ==
  (pc # "idle" /\ OnlyCommasAndWhitespace(filter_string)) =>
    /\ filter_set = {}
    /\ ~ReportPrinted
    /\ pc = "returned" => AttemptedPairs = NamespacePairs

\* a run of " , " has returned after fetching from two miners
C7_Witness ==
  /\ pc = "returned"
  /\ filter_string = <<" ", ",", " ">>
  /\ \E i, j \in DOMAIN calls :
       calls[i].op = "get_data" /\ calls[j].op = "get_data" /\ calls[i].who # calls[j].who
  /\ AttemptedPairs = NamespacePairs

(***************************************************************************)
(* Vocabulary of the resolver's properties.                                *)
(***************************************************************************)
\* the native names miner m enumerates
Produces(m) == Range(miners[m].conts)
\* the miners of the list that enumerate native name n
Producers(n) == {m \in 1..Len(miners) : n \in Produces(m)}
\* public name p is in miner m's bucket and maps to native name n
Maps(m, p, n) ==
  /\ m \in DOMAIN Namespace
  /\ p \in DOMAIN Namespace[m]
  /\ Namespace[m][p] = n

(***************************************************************************)
(* C8: when two miners A and B of the list both produce native name X, the *)
(* namespace maps X_<class of A> to X in A's bucket and X_<class of B> to  *)
(* X in B's bucket, and X itself is a public name in no bucket.            *)
(***************************************************************************)
C8_SharedNameRenamed ==
  name_source_map.cached =>
    \A a, b \in 1..Len(miners) :
      \A X \in Produces(a) \cap Produces(b) :
        a # b =>
          /\ Maps(a, ModifiedName(X, miners[a].type), X)
          /\ Maps(b, ModifiedName(X, miners[b].type), X)
          /\ X \notin PublicNames

(***************************************************************************)
(* C9: a native name that exactly one miner of the list enumerates is a    *)
(* public name of that miner's bucket and maps to itself.                  *)
(***************************************************************************)
C9_UniqueNameKept ==
  name_source_map.cached =>
    \A m \in 1..Len(miners) :
      \A n \in Produces(m) :
        Producers(n) = {m} => Maps(m, n, n)

(***************************************************************************)
(* C10: no public name is a key of the buckets of two different miners.    *)
(***************************************************************************)
C10_PublicNamesUnique ==
  name_source_map.cached =>
    \A a, b \in DOMAIN Namespace :
      a # b => DOMAIN Namespace[a] \cap DOMAIN Namespace[b] = {}

(***************************************************************************)
(* Vocabulary of the parser's properties: what a filter string denotes,    *)
(* stated on the whole string and not by a scan.                           *)
(***************************************************************************)
\* positions of the commas that lie outside parentheses
TopCommas(s) == {i \in 1..Len(s) : s[i] = "," /\ Depth(s, i) = 0}
\* the places the string is split at, with both ends
Cuts(s) == {0, Len(s) + 1} \cup TopCommas(s)
\* the pieces between two neighbouring cuts
Segments(s) ==
  {SubSeq(s, c[1] + 1, c[2] - 1) :
     c \in {d \in Cuts(s) \X Cuts(s) :
              d[1] < d[2] /\ ~\E e \in Cuts(s) : d[1] < e /\ e < d[2]}}
\* a piece without its leading and trailing whitespace
Trimmed(t) ==
  LET solid == {k \in 1..Len(t) : t[k] \notin Whitespace}
  IN  IF solid = {} THEN <<>>
      ELSE SubSeq(t, CHOOSE k \in solid : \A j \in solid : k <= j,
                     CHOOSE k \in solid : \A j \in solid : k >= j)
\* the trimmed, non-empty pieces
ExpectedNames(s) == {Trimmed(t) : t \in Segments(s)} \ {<<>>}
\* the positions where a second "(" opens or a ")" closes nothing
Offending(s) == {i \in 1..Len(s) : Depth(s, i) \notin {0, 1}}

(***************************************************************************)
(* C11: for a filter string whose parentheses are well formed (every "("   *)
(* closed before another opens, no ")" outside a group), _parse_filter     *)
(* returns exactly the trimmed, non-empty segments between the commas that *)
(* lie outside parentheses: a comma inside a group splits nothing, the     *)
(* empty string gives the empty set, duplicates and blank segments add     *)
(* nothing.                                                                *)
(***************************************************************************)
C11_ParseSplitsAtTopCommas ==
  (pc # "idle" /\ ~Malformed(filter_string)) =>
    /\ pc = "returned"
    /\ filter_set = ExpectedNames(filter_string)

\* "x(,)," was parsed to the one name "x(,)"
C11_Witness ==
  /\ pc = "returned"
  /\ filter_string = <<"x", "(", ",", ")", ",">>
  /\ filter_set = {<<"x", "(", ",", ")">>}

(***************************************************************************)
(* C12: _parse_filter raises FilterParseError exactly when the string has  *)
(* a "(" inside a parenthesis, a ")" outside one, or ends inside one; in   *)
(* the first two cases the message names the first offending character and *)
(* its 0-based position, also when the string would end inside a           *)
(* parenthesis; otherwise the message is that of the unclosed parenthesis. *)
(***************************************************************************)
C12_ParseFailsExactlyOnMalformed ==
  pc # "idle" =>
    /\ pc = "raised" <=> Malformed(filter_string)
    /\ pc = "raised" =>
         /\ exc = "FilterParseError"
         /\ IF Offending(filter_string) # {}
            THEN LET first == CHOOSE i \in Offending(filter_string) :
                                \A j \in Offending(filter_string) : i <= j
                 IN  /\ Len(exc_msg) = 3
                     /\ exc_msg[1] = "unexpected character"
                     /\ exc_msg[2] = filter_string[first]
                     /\ exc_msg[3] = first - 1
            ELSE /\ Len(exc_msg) = 1
                 /\ exc_msg[1] = "parenthesis is not closed"

\* "(x(" failed at its second "(", position 2, and not as unclosed
C12_Witness ==
  /\ pc = "raised"
  /\ filter_string = <<"(", "x", "(">>
  /\ Len(exc_msg) = 3
  /\ exc_msg[2] = "("
  /\ exc_msg[3] = 2

(***************************************************************************)
(* Vocabulary of the ordering of calls.                                    *)
(***************************************************************************)
\* the positions of the get_data calls of the current run
Fetches == {i \in DOMAIN calls : calls[i].op = "get_data"}
\* calls[i] is a get_data that raised an error which run caught
CaughtFetch(i) == calls[i].op = "get_data" /\ calls[i].outcome \in OrdinaryErrors
\* calls[i] is a write after which run went on
PassedWrite(i) ==
  calls[i].op = "write" /\ calls[i].outcome \in {"ok"} \cup OrdinaryErrors
\* the item that calls[i] belongs to is finished: its fetch failed and was
\* caught, or its last writer was called and run went on
ItemFinished(i) ==
  \/ CaughtFetch(i)
  \/ PassedWrite(i) /\ calls[i].who = Len(writers)

(***************************************************************************)
(* C13: the get_data and write calls of a run are strictly ordered. Of two *)
(* get_data calls the earlier one is on a miner registered earlier, or on  *)
(* the same miner with a lexicographically smaller public name. A write by *)
(* the first writer directly follows the successful get_data of its name,  *)
(* a write by any other writer directly follows the write of the same name *)
(* by the writer registered just before it, and a get_data call (like the  *)
(* end of the run) comes only when the item before it is finished: its     *)
(* fetch failed, or all writers have been called for it.                   *)
(***************************************************************************)
C13_CallsStrictlyOrdered ==
  /\ \A i \in Fetches : \A j \in Fetches :
       i < j =>
         \/ calls[i].who < calls[j].who
         \/ /\ calls[i].who = calls[j].who
            /\ StrLess(calls[i].public, calls[j].public)
  /\ \A i \in DOMAIN calls :
       IF calls[i].op = "get_data"
       THEN i > 1 => ItemFinished(i - 1)
       ELSE /\ i > 1
            /\ calls[i].public = calls[i - 1].public
            /\ IF calls[i].who = 1
               THEN calls[i - 1].op = "get_data" /\ calls[i - 1].outcome = "ok"
               ELSE PassedWrite(i - 1) /\ calls[i - 1].who = calls[i].who - 1
  /\ (pc \in {"get_data", "returned"} /\ calls # <<>>) => ItemFinished(Len(calls))
  /\ pc = "write" =>
       /\ calls # <<>>
       /\ ~ItemFinished(Len(calls))
       /\ writer_idx = IF calls[Len(calls)].op = "get_data" THEN 1
                       ELSE calls[Len(calls)].who + 1

\* two miners with two containers each: a failed fetch, then every other item
\* fetched and written by every writer, miner by miner and name by name
C13_Witness ==
  /\ pc = "returned"
  /\ Len(miners) = 2
  /\ Len(calls) = 3 * Len(writers) + 4
  /\ calls[1].who = 1 /\ calls[1].public = ModifiedName(sx, miners[1].type)
  /\ CaughtFetch(1)
  /\ calls[2].who = 1 /\ calls[2].public = ModifiedName(sy, miners[1].type)
  /\ calls[Len(calls)].op = "write"
  /\ calls[Len(calls)].public = ModifiedName(sy, miners[2].type)
  /\ \E i \in Fetches : calls[i].who = 2 /\ calls[i].public = ModifiedName(sx, miners[2].type)

(***************************************************************************)
(* C14: when every get_data and write call returns or raises an ordinary   *)
(* error, a run whose filter is well formed never leaves with an exception *)
(* (an exception leaves only for a malformed filter, and then it is the    *)
(* FilterParseError), and a run that is waiting in a get_data or write     *)
(* call eventually reaches its end and returns.                            *)
(***************************************************************************)
C14_RunTerminates ==
  /\ [](pc = "raised" => Malformed(filter_string) /\ exc = "FilterParseError")
  /\ (pc \in {"get_data", "write"}) ~> (pc = "returned")

\* a run that returned although a fetch and a write had failed
C14_Witness ==
  /\ pc = "returned"
  /\ ~Malformed(filter_string)
  /\ \E i \in DOMAIN calls : CaughtFetch(i)
  /\ \E i \in DOMAIN calls : calls[i].op = "write" /\ calls[i].outcome \in OrdinaryErrors

(***************************************************************************)
(* C15: the namespace is computed once per FlowManager. Over any sequence  *)
(* of runs and accesses of _name_source_map, the contname_iter of each     *)
(* miner has been invoked at most once in total, a cached map is the one   *)
(* the resolver computes from the miner list, and once the map is cached   *)
(* no step changes it: every later access returns the same mapping.        *)
(***************************************************************************)
C15_NamespaceComputedOnce ==
  /\ [](/\ \A m \in DOMAIN iter_calls : iter_calls[m] <= 1
        /\ name_source_map.cached =>
             name_source_map.map = ComputeNameSourceMap(miners))
  /\ [][name_source_map.cached =>
          /\ name_source_map' = name_source_map
          /\ iter_calls' = iter_calls]_vars

\* run reads the property at line 39 and once more at line 40 for every miner
\* it visits: here the second miner is being processed, so the map computed
\* by the first access has been returned by later ones
C15_Witness ==
  /\ pc = "get_data"
  /\ miner_pos = 2
  /\ name_source_map.cached
  /\ \A m \in DOMAIN iter_calls : iter_calls[m] = 1
  /\ \E i \in DOMAIN calls : calls[i].who = 1

(***************************************************************************)
(* Vocabulary of the report about unavailable containers.                  *)
(***************************************************************************)
\* the public names get_data was attempted for in the current run
AttemptedNames == {calls[i].public : i \in Fetches}
\* the positions in the output of the names listed as unavailable
MissingLines == {i \in DOMAIN out : out[i].tag = "missing"}
\* the position in the output of the heading of that list
HeadingLines == {i \in DOMAIN out : out[i].tag = "not available:"}

(***************************************************************************)
(* C16: a name is recorded as processed before its fetch is attempted (the *)
(* name of a pending get_data call is in processed_set, and so is every    *)
(* name a fetch was attempted for); nothing is reported as unavailable     *)
(* before the run has reached its end or without a RequestSet; and when a  *)
(* run with a non-empty RequestSet has returned, the names listed are      *)
(* exactly the RequestSet minus the attempted names, each once and in      *)
(* increasing lexicographic order at the end of the output under one       *)
(* heading, so that a name whose get_data or whose writes failed is not    *)
(* listed and every requested name is either attempted or listed, never    *)
(* both.                                                                   *)
(***************************************************************************)
C16_MissingReport ==
  /\ pc = "get_data" => CurrentName \in processed_set
  /\ AttemptedNames \subseteq processed_set
  /\ processed_set \subseteq
       AttemptedNames \cup (IF pc = "get_data" THEN {CurrentName} ELSE {})
  /\ (pc # "returned" \/ filter_set = {}) => ~ReportPrinted
  /\ (pc = "returned" /\ filter_set # {}) =>
       /\ ListedMissing = filter_set \ AttemptedNames
       /\ \A n \in filter_set : n \in AttemptedNames <=> n \notin ListedMissing
       /\ \A i \in DOMAIN calls : calls[i].public \notin ListedMissing
       /\ \A i \in MissingLines : \A j \in MissingLines :
            i < j => StrLess(out[i].name, out[j].name)
       /\ \A i \in MissingLines : \A j \in DOMAIN out : j > i => j \in MissingLines
       /\ IF ListedMissing = {} THEN HeadingLines = {}
          ELSE \E h \in DOMAIN out :
                 /\ HeadingLines = {h}
                 /\ h + 1 \in MissingLines
                 /\ \A i \in MissingLines : i > h

\* "y, z" was requested: the fetch of y failed, and only z is listed as
\* unavailable
C16_Witness ==
  /\ pc = "returned"
  /\ filter_set = {sy, sz}
  /\ \E i \in Fetches : calls[i].public = sy /\ CaughtFetch(i)
  /\ ListedMissing = {sz}
  /\ out[Len(out)] = Line("missing", sz, "")

(***************************************************************************)
(* C17: every get_data call is made on a miner with the native name that   *)
(* the miner's own bucket maps the current public name to (a name the      *)
(* miner enumerates). Every write is preceded, before the writes of the    *)
(* writers registered earlier, by a successful get_data call for the same  *)
(* item: the write passes the public name, that public name is a key of    *)
(* the bucket of the miner the data was fetched from, the bucket maps it   *)
(* to the native name that was fetched, and the data written is the data   *)
(* that call returned, i.e. that miner's data for that native name.        *)
(***************************************************************************)
C17_WriteFollowsFetch ==
  \A i \in DOMAIN calls :
    IF calls[i].op = "get_data"
    THEN /\ Maps(calls[i].who, calls[i].public, calls[i].arg)
         /\ calls[i].arg \in Produces(calls[i].who)
         /\ calls[i].outcome = "ok" =>
              calls[i].data = Data(calls[i].who, calls[i].arg)
    ELSE LET j == i - calls[i].who
         IN  /\ j \in DOMAIN calls
             /\ calls[j].op = "get_data"
             /\ calls[j].outcome = "ok"
             /\ calls[i].arg = calls[j].public
             /\ calls[i].data = calls[j].data
             /\ Maps(calls[j].who, calls[i].arg, calls[j].arg)
             /\ calls[i].data = Data(calls[j].who, Namespace[calls[j].who][calls[i].arg])
             /\ \A k \in (j + 1)..(i - 1) : calls[k].op = "write"

\* the second miner's container x was fetched under its native name and is
\* written under its public name x_B, after the first miner's x_A
C17_Witness ==
  /\ Len(miners) = 2
  /\ miners[1].type # miners[2].type
  /\ \E i \in DOMAIN calls :
       /\ calls[i].op = "write"
       /\ calls[i].who = Len(writers)
       /\ calls[i].arg = ModifiedName(sx, miners[2].type)
       /\ calls[i].data = Data(2, sx)
       /\ calls[i - Len(writers)].arg = sx
       /\ calls[i - Len(writers)].who = 2
  /\ \E i \in DOMAIN calls :
       /\ calls[i].op = "write"
       /\ calls[i].arg = ModifiedName(sx, miners[1].type)
       /\ calls[i].data = Data(1, sx)

(***************************************************************************)
(* C18: the resolver loses no container: once the namespace is computed,   *)
(* for every miner of the list and every native name its contname_iter     *)
(* yields, the miner's bucket has a public name that maps to that native   *)
(* name.                                                                   *)
(***************************************************************************)
C18_NoContainerLost ==
  name_source_map.cached =>
    \A m \in 1..Len(miners) :
      \A n \in Produces(m) :
        \E p \in PublicNames : Maps(m, p, n)

(***************************************************************************)
(* C19: within one run no writer receives two write calls with the same    *)
(* public name.                                                            *)
(***************************************************************************)
C19_OneWritePerName ==
  \A i \in DOMAIN calls : \A j \in DOMAIN calls :
    (/\ i < j
     /\ calls[i].op = "write"
     /\ calls[j].op = "write"
     /\ calls[i].who = calls[j].who) => calls[i].arg # calls[j].arg

(***************************************************************************)
(* What a run owes to its own arguments: the namespace of the miner list   *)
(* and the RequestSet of the filter string.                                *)
(***************************************************************************)
RequestSet == ParseFilter(filter_string).names
ExpectedNamespace == ComputeNameSourceMap(miners)
ExpectedPublicNames ==
  UNION {DOMAIN ExpectedNamespace[m] : m \in DOMAIN ExpectedNamespace}
ExpectedPairs ==
  UNION {{<<m, p>> : p \in {q \in DOMAIN ExpectedNamespace[m] :
                              RequestSet = {} \/ q \in RequestSet}} :
         m \in DOMAIN ExpectedNamespace}
ExpectedMissing == RequestSet \ ExpectedPublicNames

(***************************************************************************)
(* C20: runs on one FlowManager are independent. No step changes the miner *)
(* list, the writer list or a cached namespace. While a run is under way   *)
(* and when it has returned, its filter_set is still the whole RequestSet  *)
(* parsed from its own filter string (filtering a miner's candidates did   *)
(* not shrink it), its processed_set holds only names of its own get_data  *)
(* calls, and the pairs it fetched are among those that the miner list and *)
(* its filter string select; when it has returned, whatever runs came      *)
(* before and however they ended, the pairs it fetched and the names it    *)
(* reported unavailable are exactly those determined by the miner list and *)
(* its own filter string.                                                  *)
(***************************************************************************)
C20_RunsIndependent ==
  /\ [][/\ miners' = miners
        /\ writers' = writers
        /\ name_source_map.cached => name_source_map' = name_source_map]_vars
  /\ [](pc \in {"get_data", "write", "returned"} =>
          /\ filter_set = RequestSet
          /\ processed_set =
               AttemptedNames \cup (IF pc = "get_data" THEN {CurrentName} ELSE {})
          /\ AttemptedPairs \subseteq ExpectedPairs
          /\ pc = "returned" =>
               /\ AttemptedPairs = ExpectedPairs
               /\ ListedMissing = ExpectedMissing)

\* after an earlier run of the same FlowManager left with an exception, a run
\* with a filter returned: it fetched a requested name from each of two miners
\* and reported another as unavailable
C20_Witness ==
  /\ pc = "returned"
  /\ left_before
  /\ filter_set # {}
  /\ \E i \in Fetches : \E j \in Fetches : calls[i].who # calls[j].who
  /\ ListedMissing # {}
====
